---- MODULE Spec2Model ----
(***************************************************************************)
(* Fix&Furn concierge: the reference search, the product lookup, the       *)
(* repair estimator, the interaction log, the tool dispatcher and the      *)
(* chat_fn tool-calling loop of src/tools.py and src/app.py.               *)
(*                                                                         *)
(* Text is a sequence of one-character strings, so that strip(), lower(),  *)
(* the substring test and re.split(r"\W+") are computed, not assumed.      *)
(***************************************************************************)
EXTENDS Integers, Sequences, FiniteSets, TLC

VARIABLES CATALOG, IKEA_ITEMS, PRICE_RULES, call, ret,
          pc, response, function_call, tool_result, turn,
          leads, feedback, service_feedback

vars == <<CATALOG, IKEA_ITEMS, PRICE_RULES, call, ret,
          pc, response, function_call, tool_result, turn,
          leads, feedback, service_feedback>>

dataVars == <<CATALOG, IKEA_ITEMS, PRICE_RULES>>
chatVars == <<pc, response, function_call, tool_result, turn>>
logVars == <<leads, feedback, service_feedback>>

(***************************************************************************)
(* Bounds of the model.                                                    *)
(***************************************************************************)
MaxLen == 2
MaxItems == 2

(***************************************************************************)
(* Text.                                                                   *)
(***************************************************************************)
Alphabet == {"a", "A", "b", " "}

\* the texts of length at most n
TextUpTo(n) == UNION {[1..k -> Alphabet] : k \in 0..n}

Text == TextUpTo(MaxLen)

\* str.lower() on one character
LowerChar(c) ==
  CASE c = "A" -> "a" [] c = "B" -> "b" [] c = "L" -> "l" [] c = "M" -> "m"
    [] c = "S" -> "s" [] OTHER -> c

\* str.lower()
Lower(s) == [i \in 1..Len(s) |-> LowerChar(s[i])]

\* whitespace, as str.strip() sees it
IsSpace(c) == c = " "

\* a word character of the regular expression \w, among the characters used
IsWordChar(c) == c \in {"a", "A", "b", "B"}

RECURSIVE LStrip(_)
LStrip(s) == IF s # <<>> /\ IsSpace(Head(s)) THEN LStrip(Tail(s)) ELSE s

RECURSIVE RStrip(_)
RStrip(s) ==
  IF s # <<>> /\ IsSpace(s[Len(s)]) THEN RStrip(SubSeq(s, 1, Len(s) - 1)) ELSE s

\* str.strip()
Strip(s) == RStrip(LStrip(s))

\* the operator "sub in s" on str
Contains(s, sub) ==
  \E i \in 0..(Len(s) - Len(sub)) : SubSeq(s, i + 1, i + Len(sub)) = sub

\* the code point order of the characters, as str comparison uses it
Ord(c) ==
  CASE c = " " -> 32 [] c = "A" -> 65 [] c = "B" -> 66 [] c = "a" -> 97
    [] c = "b" -> 98 [] OTHER -> 127

\* s < t on str
RECURSIVE StrLess(_, _)
StrLess(s, t) ==
  IF t = <<>> THEN FALSE
  ELSE IF s = <<>> THEN TRUE
  ELSE IF Head(s) # Head(t) THEN Ord(Head(s)) < Ord(Head(t))
  ELSE StrLess(Tail(s), Tail(t))

\* re.split(r"\W+", q) with the empty pieces filtered out
RECURSIVE SplitWords(_, _)
SplitWords(s, cur) ==
  IF s = <<>> THEN (IF cur = <<>> THEN <<>> ELSE <<cur>>)
  ELSE IF IsWordChar(Head(s)) THEN SplitWords(Tail(s), Append(cur, Head(s)))
  ELSE (IF cur = <<>> THEN <<>> ELSE <<cur>>) \o SplitWords(Tail(s), <<>>)

Words(q) == SplitWords(q, <<>>)

\* " ".join(filter(None, parts))
RECURSIVE JoinNonEmpty(_)
JoinNonEmpty(parts) ==
  IF parts = <<>> THEN <<>>
  ELSE LET rest == JoinNonEmpty(Tail(parts)) IN
       IF Head(parts) = <<>> THEN rest
       ELSE IF rest = <<>> THEN Head(parts)
       ELSE Head(parts) \o <<" ">> \o rest

(***************************************************************************)
(* The reference dataset (IKEA_ITEMS) and its search.                      *)
(***************************************************************************)
\* one row of the reference file, as _load_ikea_catalog turns it into an item;
\* rows without item_id or name are dropped by the caller
LoadRow(row) ==
  LET item_id == Strip(row.item_id)
      name == Strip(row.name)
      category == Strip(row.category)
  IN [item_id |-> item_id, name |-> name, category |-> category,
      search |-> JoinNonEmpty(<<Lower(item_id), Lower(name), Lower(category)>>)]

RECURSIVE LoadRows(_)
LoadRows(rows) ==
  IF rows = <<>> THEN <<>>
  ELSE LET row == Head(rows) IN
       IF Strip(row.item_id) = <<>> \/ Strip(row.name) = <<>>
       THEN LoadRows(Tail(rows))
       ELSE <<LoadRow(row)>> \o LoadRows(Tail(rows))

\* _copy_public_item: the keys starting with "_" are dropped
CopyPublicItem(item) ==
  [item_id |-> item.item_id, name |-> item.name, category |-> item.category]

\* the number of query words found in the searchable text
RECURSIVE WordHits(_, _)
WordHits(words, text) ==
  IF words = <<>> THEN 0
  ELSE (IF Contains(text, Head(words)) THEN 1 ELSE 0) + WordHits(Tail(words), text)

IdBonus == 10
SubstringBonus == 3
DefaultLimit == 5

\* the score without the +10 of an exact id
ScoreNoIdBonus(q, item) ==
  (IF Contains(item.search, q) THEN SubstringBonus ELSE 0)
  + WordHits(Words(q), item.search)

\* the score of one item for the normalised query q
Score(q, item) ==
  (IF q = Lower(item.item_id) THEN IdBonus ELSE 0)
  + (IF Contains(item.search, q) THEN SubstringBonus ELSE 0)
  + WordHits(Words(q), item.search)

\* position of item_id in the scored dict (insertion order), 0 when absent
ScoredIndex(scored, item_id) ==
  IF \E i \in 1..Len(scored) : scored[i].item.item_id = item_id
  THEN CHOOSE i \in 1..Len(scored) : scored[i].item.item_id = item_id
  ELSE 0

\* the loop over IKEA_ITEMS that fills the scored dict
RECURSIVE ScoreAll(_, _, _)
ScoreAll(q, items, scored) ==
  IF items = <<>> THEN scored
  ELSE LET item == Head(items)
           score == Score(q, item)
           at == ScoredIndex(scored, item.item_id)
           next == IF score > 0
                   THEN IF at = 0
                        THEN Append(scored, [score |-> score, item |-> item])
                        ELSE IF score > scored[at].score
                             THEN [scored EXCEPT ![at] = [score |-> score, item |-> item]]
                             ELSE scored
                   ELSE scored
       IN ScoreAll(q, Tail(items), next)

\* the sort key (score, name), the minus sign forgotten
KeyLessAscending(p, r) ==
  \/ p.score < r.score
  \/ p.score = r.score /\ StrLess(p.item.name, r.item.name)

\* the sort key (-score, name): p sorts strictly before r
KeyLess(p, r) ==
  \/ p.score > r.score
  \/ p.score = r.score /\ StrLess(p.item.name, r.item.name)

\* stable insertion of p into the sorted sequence s
RECURSIVE InsertSorted(_, _)
InsertSorted(s, p) ==
  IF s = <<>> THEN <<p>>
  ELSE IF KeyLess(p, Head(s)) THEN <<p>> \o s
  ELSE <<Head(s)>> \o InsertSorted(Tail(s), p)

\* sorted(scored.values(), key=...): a stable sort
RECURSIVE SortScored(_)
SortScored(s) ==
  IF s = <<>> THEN <<>>
  ELSE InsertSorted(SortScored(SubSeq(s, 1, Len(s) - 1)), s[Len(s)])

\* top[:limit] for limit >= 0
Take(s, n) == SubSeq(s, 1, IF n < Len(s) THEN n ELSE Len(s))

search_ikea_items(items, query, limit) ==
  IF items = <<>> THEN <<>>
  ELSE LET q == Lower(Strip(query)) IN
       IF q = <<>> THEN <<>>
       ELSE LET top == SortScored(ScoreAll(q, items, <<>>)) IN
            [i \in 1..Len(Take(top, limit)) |-> CopyPublicItem(top[i].item)]

(***************************************************************************)
(* Argument values as the tools receive them: a str, None, a number (any   *)
(* value that is neither), or no argument at all.                          *)
(***************************************************************************)
Str(s) == [kind |-> "str", s |-> s, n |-> 0]
Null == [kind |-> "null", s |-> <<>>, n |-> 0]
Num(n) == [kind |-> "num", s |-> <<>>, n |-> n]
Absent == [kind |-> "absent", s |-> <<>>, n |-> 0]

\* bool(v)
Truthy(v) ==
  CASE v.kind = "str" -> v.s # <<>>
    [] v.kind = "num" -> v.n # 0
    [] OTHER -> FALSE

\* v or default
OrElse(v, default) == IF Truthy(v) THEN v ELSE Str(default)

\* what a call gives back: a dict, or an exception that leaves the function
Returns(d) == [raised |-> "none", value |-> d]
Raises(exc) == [raised |-> exc, value |-> [ok |-> FALSE]]
NoOutcome == [raised |-> "nocall", value |-> [ok |-> FALSE]]

Msg(text, name, arg) == [text |-> text, name |-> name, arg |-> arg]

(***************************************************************************)
(* The curated catalog and lookup_product.                                 *)
(***************************************************************************)
\* next((item for item in CATALOG if sku.lower() == q_lower), None), as an index
SkuMatchIndex(catalog, q_lower) ==
  IF \E i \in 1..Len(catalog) : Lower(catalog[i].sku) = q_lower
  THEN CHOOSE i \in 1..Len(catalog) :
         /\ Lower(catalog[i].sku) = q_lower
         /\ \A j \in 1..(i - 1) : Lower(catalog[j].sku) # q_lower
  ELSE 0

\* the filter of the name_hits comprehension
IsNameHit(item, q_lower) ==
  \/ Contains(Lower(item.name), q_lower)
  \/ \E k \in 1..Len(item.color_options) :
       Contains(Lower(item.color_options[k]), q_lower)

\* the filter of the category_hits comprehension
IsCategoryHit(item, q_lower) == Lower(item.category) = q_lower

\* "if name_hits and not sku_match"
KeepNameHitsAlways(name_hits, sku_at) == name_hits # <<>>

KeepNameHits(name_hits, sku_at) == name_hits # <<>> /\ sku_at = 0

\* "if len(result) == 2"
NothingFoundNever(result) == FALSE

NothingFound(result) == Cardinality(DOMAIN result) = 2

\* result[key] = value when present
With(d, present, key, value) == IF present THEN d @@ (key :> value) ELSE d

lookup_product(catalog, ikea, query) ==
  IF Truthy(query) /\ query.kind # "str" THEN Raises("AttributeError")
  ELSE
  LET q == Strip(OrElse(query, <<>>).s) IN
  IF q = <<>> THEN Returns([ok |-> FALSE, msg |-> Msg("Please provide", "", <<>>)])
  ELSE
  LET q_lower == Lower(q)
      sku_at == SkuMatchIndex(catalog, q_lower)
      name_hits == SelectSeq(catalog, LAMBDA item : IsNameHit(item, q_lower))
      category_hits == SelectSeq(catalog, LAMBDA item : IsCategoryHit(item, q_lower))
      ikea_hits == search_ikea_items(ikea, q_lower, DefaultLimit)
      r0 == [ok |-> TRUE, query |-> q]
      r1 == With(r0, sku_at # 0, "catalog_match", catalog[sku_at])
      r2 == With(r1, KeepNameHits(name_hits, sku_at), "catalog_results", name_hits)
      r3 == With(r2, category_hits # <<>>, "catalog_category", category_hits)
      result == With(r3, ikea_hits # <<>>, "ikea_results", ikea_hits)
  IN IF NothingFound(result)
     THEN Returns([ok |-> FALSE, msg |-> Msg("No products found", "", q)])
     ELSE Returns(result)

(***************************************************************************)
(* The repair estimator.                                                   *)
(***************************************************************************)
ANY == <<"a", "n", "y">>
SMALL == <<"s", "m", "a", "l", "l">>
MEDIUM == <<"m", "e", "d", "i", "u", "m">>
LARGE == <<"l", "a", "r", "g", "e">>

\* round(n / d) for n >= 0 and d > 0, rounded up from the half
RoundHalfUp(n, d) == IF 2 * (n % d) >= d THEN (n \div d) + 1 ELSE n \div d

\* Python's round(n / d) for n >= 0 and d > 0: the nearest integer, the even
\* one of the two when n / d lies halfway.  For the integer prices of the
\* rule table (0 to 3000) the float products min_p * 0.9 and max_p * 1.25
\* round to the same integers as the exact quotients 9 min_p / 10 and
\* 5 max_p / 4.
RoundHalfEven(n, d) ==
  LET q == n \div d
      r == n % d
  IN IF 2 * r < d THEN q
     ELSE IF 2 * r > d THEN q + 1
     ELSE IF q % 2 = 0 THEN q ELSE q + 1

Max(a, b) == IF a > b THEN a ELSE b

\* the tiers dict built from one entry of a bucket
Tiers(e) ==
  LET min_p == e[1]
      max_p == e[2]
      min_d == e[3]
      max_d == e[4]
  IN [budget |-> [price |-> RoundHalfEven(9 * min_p, 10),
                  days |-> <<min_d, Max(min_d, min_d + 1)>>],
      standard |-> [price |-> RoundHalfEven(min_p + max_p, 2),
                    days |-> <<min_d, max_d>>],
      rush |-> [price |-> RoundHalfEven(5 * max_p, 4),
                days |-> <<Max(1, min_d - 1), Max(1, max_d - 1)>>]]

\* position of the material among the keys of rules, 0 when absent
MaterialIndex(rules, material) ==
  IF \E i \in 1..Len(rules) : rules[i].material = material
  THEN CHOOSE i \in 1..Len(rules) : rules[i].material = material
  ELSE 0

\* the bucket the material resolves to: exact, else "any", else the first
ResolveBucket(rules, material) ==
  IF MaterialIndex(rules, material) # 0
  THEN rules[MaterialIndex(rules, material)].bucket
  ELSE IF MaterialIndex(rules, ANY) # 0
  THEN rules[MaterialIndex(rules, ANY)].bucket
  ELSE rules[1].bucket

\* x.strip() on an argument raises AttributeError unless x is a str
NotStrippable(v) == v.kind # "str"

\* the argument, or the default of the signature when it was not passed
Passed(v, default) == IF v.kind = "absent" THEN Str(default) ELSE v

estimate_repair(price_rules, issue_arg, material_arg, size_arg) ==
  LET material_in == OrElse(Passed(material_arg, ANY), ANY)
      size_in == OrElse(Passed(size_arg, MEDIUM), MEDIUM)
  IN
  IF NotStrippable(issue_arg) \/ NotStrippable(material_in) \/ NotStrippable(size_in)
  THEN Raises("AttributeError")
  ELSE
  LET issue == Lower(Strip(issue_arg.s))
      material == Lower(Strip(material_in.s))
      size == Lower(Strip(size_in.s))
  IN
  IF issue \notin DOMAIN price_rules \/ price_rules[issue] = <<>>
  THEN Returns([ok |-> FALSE, msg |-> Msg("No pricing rule for issue", "", issue)])
  ELSE
  LET bucket == ResolveBucket(price_rules[issue], material) IN
  IF size \notin DOMAIN bucket
  THEN Returns([ok |-> FALSE, msg |-> Msg("Unsupported size_category", "", size)])
  ELSE Returns([ok |-> TRUE, issue |-> issue, material |-> material, size |-> size,
                estimate |-> Tiers(bucket[size])])

(***************************************************************************)
(* The interaction log.  A call gives back its outcome and the line it     *)
(* appended, if any: store names the log, entry is the line.               *)
(***************************************************************************)
Effect(out, store, entry) == [out |-> out, store |-> store, entry |-> entry]
NoEntry == [ts |-> 0]
Pure(out) == Effect(out, "none", NoEntry)

record_customer_interest(email, name, message, now) ==
  Effect(Returns([ok |-> TRUE, msg |-> Msg("Thanks! We'll follow up soon.", "", <<>>)]),
         "leads",
         [ts |-> now, email |-> email, name |-> name, message |-> message])

\* the feedback line written to the leads log
record_feedback_to_leads(question, now) ==
  Effect(Returns([ok |-> TRUE, msg |-> Msg("Noted. We'll improve our answers.", "", <<>>)]),
         "leads",
         [ts |-> now, question |-> question])

record_feedback(question, now) ==
  Effect(Returns([ok |-> TRUE, msg |-> Msg("Noted. We'll improve our answers.", "", <<>>)]),
         "feedback",
         [ts |-> now, question |-> question])

record_service_feedback(email, name, service_type, satisfaction, comments, now) ==
  Effect(Returns([ok |-> TRUE, msg |-> Msg("Thanks for the feedback!", "", <<>>)]),
         "service_feedback",
         [ts |-> now, email |-> email, name |-> name, service_type |-> service_type,
          satisfaction |-> satisfaction,
          comments |-> OrElse(Passed(comments, <<>>), <<>>)])

(***************************************************************************)
(* The tool dispatcher.                                                    *)
(***************************************************************************)
ToolNames ==
  {"lookup_product", "estimate_repair", "record_customer_interest",
   "record_feedback", "record_service_feedback"}

\* the parameters of a tool without a default
Required(name) ==
  CASE name = "lookup_product" -> {"query"}
    [] name = "estimate_repair" -> {"issue"}
    [] name = "record_customer_interest" -> {"email", "name", "message"}
    [] name = "record_feedback" -> {"question"}
    [] name = "record_service_feedback" ->
         {"email", "name", "service_type", "satisfaction"}
    [] OTHER -> {}

\* the parameters of a tool with a default
Optional(name) ==
  CASE name = "estimate_repair" -> {"material", "size_category"}
    [] name = "record_service_feedback" -> {"comments"}
    [] OTHER -> {}

\* tool(**args) binds: no required parameter is missing, no key is unexpected;
\* otherwise the call raises TypeError before the body runs
Binds(name, args) ==
  /\ Required(name) \subseteq DOMAIN args
  /\ DOMAIN args \subseteq (Required(name) \cup Optional(name))

\* the argument passed for key, if any
Arg(args, key) == IF key \in DOMAIN args THEN args[key] ELSE Absent

\* the body of the tool on bound arguments
ToolBody(catalog, ikea, price_rules, name, args, now) ==
  CASE name = "lookup_product" ->
         Pure(lookup_product(catalog, ikea, args["query"]))
    [] name = "estimate_repair" ->
         Pure(estimate_repair(price_rules, args["issue"], Arg(args, "material"),
                              Arg(args, "size_category")))
    [] name = "record_customer_interest" ->
         record_customer_interest(args["email"], args["name"], args["message"], now)
    [] name = "record_feedback" -> record_feedback(args["question"], now)
    [] OTHER ->
         record_service_feedback(args["email"], args["name"], args["service_type"],
                                 args["satisfaction"], Arg(args, "comments"), now)

call_tool(catalog, ikea, price_rules, name, args, now) ==
  IF name \notin ToolNames
  THEN Pure(Returns([ok |-> FALSE, msg |-> Msg("Unknown tool", name, <<>>)]))
  ELSE IF ~Binds(name, args)
  THEN Pure(Returns([ok |-> FALSE, msg |-> Msg("Invalid arguments for", name, <<>>)]))
  ELSE ToolBody(catalog, ikea, price_rules, name, args, now)

(***************************************************************************)
(* The model's responses and the helpers of chat_fn.                       *)
(***************************************************************************)
\* argument values as the client library hands them over
ProtoStr(s) == [which |-> "string_value", s |-> s, n |-> 0]
ProtoNum(n) == [which |-> "number_value", s |-> <<>>, n |-> n]
ProtoNull == [which |-> "null_value", s |-> <<>>, n |-> 0]

proto_to_python(value) ==
  CASE value.which = "string_value" -> Str(value.s)
    [] value.which = "number_value" -> Num(value.n)
    [] OTHER -> Null

function_args_to_dict(fc) == [k \in DOMAIN fc.args |-> proto_to_python(fc.args[k])]

TextPart(text) == [kind |-> "text", text |-> text, name |-> "", args |-> <<>>]
CallPart(name, args) ==
  [kind |-> "function_call", text |-> <<>>, name |-> name, args |-> args]
Candidate(parts) == [has_content |-> TRUE, parts |-> parts]
EmptyCandidate == [has_content |-> FALSE, parts |-> <<>>]

NoCall == [kind |-> "none", text |-> <<>>, name |-> "", args |-> <<>>]

\* the inner loop of _first_function_call over the parts of one candidate
RECURSIVE FirstCallInParts(_)
FirstCallInParts(parts) ==
  IF parts = <<>> THEN NoCall
  ELSE IF Head(parts).kind = "function_call" THEN Head(parts)
  ELSE FirstCallInParts(Tail(parts))

\* the outer loop of _first_function_call over the candidates
RECURSIVE first_function_call(_)
first_function_call(candidates) ==
  IF candidates = <<>> THEN NoCall
  ELSE IF ~Head(candidates).has_content THEN first_function_call(Tail(candidates))
  ELSE LET found == FirstCallInParts(Head(candidates).parts) IN
       IF found # NoCall THEN found ELSE first_function_call(Tail(candidates))

\* the text parts of a candidate, concatenated
RECURSIVE PartsText(_)
PartsText(parts) ==
  IF parts = <<>> THEN <<>>
  ELSE (IF Head(parts).kind = "text" THEN Head(parts).text ELSE <<>>)
       \o PartsText(Tail(parts))

\* response.text or "": the text of the first candidate, "" without one
ResponseText(candidates) ==
  IF candidates = <<>> \/ ~Head(candidates).has_content THEN <<>>
  ELSE PartsText(Head(candidates).parts)

(***************************************************************************)
(* The data the module loads at import, drawn from small families.         *)
(***************************************************************************)
\* the sequences over S of length at most n
SeqsUpTo(S, n) == UNION {[1..k -> S] : k \in 0..n}

\* rows of the reference file: a padded id, a multi-word id, a repeated id,
\* ids that differ in case only, and a row the loader drops (no name)
RefRows ==
  { [item_id |-> <<"a">>, name |-> <<"b">>, category |-> <<>>],
    [item_id |-> <<"A", " ", "b">>, name |-> <<"a">>, category |-> <<>>],
    [item_id |-> <<" ", "b">>, name |-> <<"a", " ", "b">>, category |-> <<"a">>],
    [item_id |-> <<"a">>, name |-> <<"a">>, category |-> <<>>],
    [item_id |-> <<"A">>, name |-> <<"a", "b">>, category |-> <<>>],
    [item_id |-> <<"b">>, name |-> <<" ">>, category |-> <<>>] }

Datasets == {LoadRows(rows) : rows \in SeqsUpTo(RefRows, MaxItems)}

MaxLimit == 1
Limits == (0..MaxLimit) \cup {DefaultLimit}

Queries ==
  Text \cup {<<"a", " ", "b">>, <<"A", " ", "b">>, <<"A", " ", "B">>,
             <<" ", "a", " ", "b", " ">>, <<"b", " ", "a">>}

IdleChat ==
  /\ pc = "Idle"
  /\ response = <<>>
  /\ function_call = [name |-> "", args |-> <<>>]
  /\ tool_result = NoOutcome
  /\ turn = [script |-> <<>>, responses |-> <<>>, dispatched |-> <<>>,
             sent |-> <<>>, returned |-> Absent]
  /\ leads = <<>>
  /\ feedback = <<>>
  /\ service_feedback = <<>>

(***************************************************************************)
(* The reference search on its own.                                        *)
(***************************************************************************)
InitSearch ==
  /\ CATALOG = <<>>
  /\ IKEA_ITEMS \in Datasets
  /\ PRICE_RULES = <<>>
  /\ call = [op |-> "none"]
  /\ ret = NoOutcome
  /\ IdleChat

\* the caller takes the result; the next call can start
Return ==
  /\ call.op # "none"
  /\ call' = [op |-> "none"]
  /\ ret' = NoOutcome
  /\ UNCHANGED <<dataVars, chatVars, logVars>>

Search(query, limit) ==
  /\ call.op = "none"
  /\ call' = [op |-> "_search_ikea_items", query |-> query, limit |-> limit]
  /\ ret' = Returns(search_ikea_items(IKEA_ITEMS, query, limit))
  /\ UNCHANGED <<dataVars, chatVars, logVars>>

NextSearch ==
  \/ \E query \in Queries, limit \in Limits : Search(query, limit)
  \/ Return

SpecSearch == InitSearch /\ [][NextSearch]_vars

(***************************************************************************)
(* lookup_product over a curated catalog and a reference dataset.          *)
(***************************************************************************)
\* curated items: a sku inside its own name, a sku that is another item's
\* category, a multi-word sku, a colour option, an item that only "b" finds
CatalogItems ==
  { [sku |-> <<"A", "b">>, name |-> <<"a", "b", " ", "a">>, category |-> <<"b">>,
     color_options |-> <<>>],
    [sku |-> <<"b">>, name |-> <<"A">>, category |-> <<"A", "b">>,
     color_options |-> << <<"B", "a">> >>],
    [sku |-> <<"a", " ", "b">>, name |-> <<"b">>, category |-> <<"b">>,
     color_options |-> << <<"b">>, <<"a">> >>],
    [sku |-> <<"b", "b">>, name |-> <<"b", " ", "b">>, category |-> <<"b">>,
     color_options |-> <<>>] }

\* the data model's invariant: sku is a unique, non-empty, trimmed string,
\* unique under the comparison the lookup uses
UniqueSkus(catalog) ==
  /\ \A i \in 1..Len(catalog) :
       catalog[i].sku # <<>> /\ Strip(catalog[i].sku) = catalog[i].sku
  /\ \A i, j \in 1..Len(catalog) :
       i # j => Lower(catalog[i].sku) # Lower(catalog[j].sku)

Catalogs == {c \in SeqsUpTo(CatalogItems, MaxItems) : UniqueSkus(c)}

LookupRows ==
  { [item_id |-> <<"a">>, name |-> <<"b">>, category |-> <<>>],
    [item_id |-> <<"A", " ", "b">>, name |-> <<"a">>, category |-> <<>>],
    [item_id |-> <<"a">>, name |-> <<"a">>, category |-> <<>>] }

LookupDatasets == {LoadRows(rows) : rows \in SeqsUpTo(LookupRows, MaxItems)}

LookupQueries ==
  {Str(q) : q \in Text \cup
                  {<<"a", " ", "b">>, <<"A", " ", "B">>, <<" ", "a", "B", " ">>}}
  \cup {Null}

InitLookup ==
  /\ CATALOG \in Catalogs
  /\ IKEA_ITEMS \in LookupDatasets
  /\ PRICE_RULES = <<>>
  /\ call = [op |-> "none"]
  /\ ret = NoOutcome
  /\ IdleChat

Lookup(query) ==
  /\ call.op = "none"
  /\ call' = [op |-> "lookup_product", query |-> query]
  /\ ret' = lookup_product(CATALOG, IKEA_ITEMS, query)
  /\ UNCHANGED <<dataVars, chatVars, logVars>>

NextLookup ==
  \/ \E query \in LookupQueries : Lookup(query)
  \/ Return

SpecLookup == InitLookup /\ [][NextLookup]_vars

(***************************************************************************)
(* Properties of the catalog index.                                        *)
(***************************************************************************)
IsLookup == call.op = "lookup_product"

\* the trimmed, lowercased query of the lookup in progress
LookupQ == Strip(call.query.s)
LookupQLower == Lower(LookupQ)

SkuHits == {i \in 1..Len(CATALOG) : Lower(CATALOG[i].sku) = LookupQLower}

NameOrColourHit(item) ==
  \/ Contains(Lower(item.name), LookupQLower)
  \/ \E k \in 1..Len(item.color_options) :
       Contains(Lower(item.color_options[k]), LookupQLower)

CategoryHit(item) == Lower(item.category) = LookupQLower

\* a reference item the query reaches: by id, as a substring, or by a word
RefMatches(item, q) ==
  \/ Lower(item.item_id) = q
  \/ Contains(item.search, q)
  \/ \E w \in 1..Len(Words(q)) : Contains(item.search, Words(q)[w])

RefHitIds == {IKEA_ITEMS[k].item_id : k \in {j \in 1..Len(IKEA_ITEMS) :
                                           RefMatches(IKEA_ITEMS[j], LookupQLower)}}

Min(a, b) == IF a < b THEN a ELSE b

LookupOutcome ==
  IsLookup =>
    LET nameHits == SelectSeq(CATALOG, NameOrColourHit)
        categoryHits == SelectSeq(CATALOG, CategoryHit)
        refHits == search_ikea_items(IKEA_ITEMS, LookupQLower, DefaultLimit)
        keys == {"ok", "query"}
                \cup (IF SkuHits # {} THEN {"catalog_match"} ELSE {})
                \cup (IF SkuHits = {} /\ nameHits # <<>> THEN {"catalog_results"} ELSE {})
                \cup (IF categoryHits # <<>> THEN {"catalog_category"} ELSE {})
                \cup (IF RefHitIds # {} THEN {"ikea_results"} ELSE {})
    IN /\ ret.raised = "none"
       /\ IF LookupQ = <<>> \/ keys = {"ok", "query"}
          THEN ret.value.ok = FALSE /\ DOMAIN ret.value = {"ok", "msg"}
          ELSE /\ ret.value.ok
               /\ ret.value.query = LookupQ
               /\ DOMAIN ret.value = keys
               /\ SkuHits # {} =>
                    \E i \in SkuHits : ret.value.catalog_match = CATALOG[i]
               /\ "catalog_results" \in keys => ret.value.catalog_results = nameHits
               /\ categoryHits # <<>> => ret.value.catalog_category = categoryHits
               /\ RefHitIds # {} => ret.value.ikea_results = refHits

\* a lookup that a sku, a category and the reference data answer at once,
\* while the name hits are left out
LookupOutcomeWitness ==
  /\ IsLookup
  /\ ret.raised = "none"
  /\ DOMAIN ret.value =
       {"ok", "query", "catalog_match", "catalog_category", "ikea_results"}
  /\ \E j \in 1..Len(CATALOG) : NameOrColourHit(CATALOG[j])
  /\ call.query.s # LookupQ

\* the curated catalog has nothing for the query and the reference item at k
\* has the query as its item_id
OnlyReferenceKnows(k) ==
  /\ IsLookup
  /\ call.query.kind = "str"
  /\ SkuHits = {}
  /\ \A j \in 1..Len(CATALOG) :
       ~NameOrColourHit(CATALOG[j]) /\ ~CategoryHit(CATALOG[j])
  /\ call.query.s = IKEA_ITEMS[k].item_id

IsSearch == call.op = "_search_ikea_items"

SearchQ == Lower(Strip(call.query))

\* C6: for every reference item, a query equal to its item_id up to letter
\* case scores the item at least 10 and at least as high as any item reached
\* only by the substring and word checks, and in the returned list every such
\* item comes after an entry with the queried item_id.
IdMatchRanksFirst ==
  IsSearch =>
    \A k \in 1..Len(IKEA_ITEMS) :
      Lower(call.query) = Lower(IKEA_ITEMS[k].item_id) =>
        /\ Score(SearchQ, IKEA_ITEMS[k]) >= 10
        /\ \A j \in 1..Len(IKEA_ITEMS) :
             Lower(IKEA_ITEMS[j].item_id) # SearchQ =>
               Score(SearchQ, IKEA_ITEMS[j]) <= Score(SearchQ, IKEA_ITEMS[k])
        /\ \A j \in 1..Len(ret.value) :
             Lower(ret.value[j].item_id) # SearchQ =>
               \E i \in 1..(j - 1) :
                 ret.value[i].item_id = IKEA_ITEMS[k].item_id

\* a two-word id searched in another casing, returned ahead of an item that
\* the substring and both words reach
IdMatchWitness ==
  /\ IsSearch
  /\ Len(Words(SearchQ)) >= 2
  /\ \E k \in 1..Len(IKEA_ITEMS) :
       /\ Lower(call.query) = Lower(IKEA_ITEMS[k].item_id)
       /\ call.query # IKEA_ITEMS[k].item_id
  /\ Len(ret.value) >= 2
  /\ \E j \in 1..Len(ret.value) :
       /\ Lower(ret.value[j].item_id) # SearchQ
       /\ \E m \in 1..Len(IKEA_ITEMS) :
            /\ IKEA_ITEMS[m].item_id = ret.value[j].item_id
            /\ Score(SearchQ, IKEA_ITEMS[m]) = SubstringBonus + 2

(***************************************************************************)
(* estimate_repair over a rule table.                                      *)
(***************************************************************************)
MaxPrice == 6
Prices == (0..MaxPrice) \cup {80, 150}
DayRanges == {<<1, 1>>, <<2, 4>>}

\* one issue, one "any" bucket, one size: every pair of prices
TierTables ==
  { (<<"a">> :> << [material |-> ANY,
                    bucket |-> (MEDIUM :> <<min_p, max_p, d[1], d[2]>>)] >>) :
      min_p \in Prices, max_p \in Prices, d \in DayRanges }

Materials == {<<"a">>, <<"b">>, ANY}

\* the entry a table holds for a material and a size, one per cell
CellEntry(material, size) ==
  LET base == IF material = ANY THEN 80 ELSE IF material = <<"a">> THEN 10 ELSE 30
      step == IF size = SMALL THEN 0 ELSE IF size = MEDIUM THEN 4 ELSE 9
  IN <<base + step, base + step + 7, 2, 4>>

SizeSets == {{MEDIUM}, {SMALL, MEDIUM, LARGE}}

\* the orderings of one to three distinct materials
MaterialOrders ==
  {m \in SeqsUpTo(Materials, 3) :
     m # <<>> /\ \A i, j \in 1..Len(m) : i # j => m[i] # m[j]}

\* one or two issues, the materials of an issue in every order
OrderTables ==
  { [issue \in issues |->
       [i \in 1..Len(m) |->
          [material |-> m[i],
           bucket |-> [size \in sizes |-> CellEntry(m[i], size)]]]] :
      issues \in {{<<"a">>}, {<<"a">>, <<"b">>}}, m \in MaterialOrders,
      sizes \in SizeSets }

RuleTables == TierTables \cup OrderTables \cup {<<>>}

IssueArgs == {Str(<<"a">>), Str(<<" ", "A", " ">>), Str(<<"b">>), Str(<<>>), Null}

MaterialArgs ==
  {Absent, Null, Str(<<>>), Str(<<"a">>), Str(<<" ", "B">>), Str(ANY),
   Str(<<"A", " ", "b">>)}

SizeArgs ==
  {Absent, Null, Str(MEDIUM), Str(<<" ", "S", "m", "a", "l", "l", " ">>),
   Str(<<"L", "a", "r", "g", "e">>), Str(<<"b">>)}

InitEstimate ==
  /\ CATALOG = <<>>
  /\ IKEA_ITEMS = <<>>
  /\ PRICE_RULES \in RuleTables
  /\ call = [op |-> "none"]
  /\ ret = NoOutcome
  /\ IdleChat

Estimate(issue, material, size_category) ==
  /\ call.op = "none"
  /\ call' = [op |-> "estimate_repair", issue |-> issue, material |-> material,
              size_category |-> size_category]
  /\ ret' = estimate_repair(PRICE_RULES, issue, material, size_category)
  /\ UNCHANGED <<dataVars, chatVars, logVars>>

NextEstimate ==
  \/ \E issue \in IssueArgs, material \in MaterialArgs, size_category \in SizeArgs :
       Estimate(issue, material, size_category)
  \/ Return

SpecEstimate == InitEstimate /\ [][NextEstimate]_vars

IsEstimate == call.op = "estimate_repair"

\* r is n / d rounded to the nearest integer, to the even one from the half
IsRounded(r, n, d) ==
  /\ 2 * (d * r - n) <= d
  /\ 2 * (n - d * r) <= d
  /\ (2 * (d * r - n) = d \/ 2 * (n - d * r) = d) => r % 2 = 0

\* the entries of the rule table for the issue and size of an estimate
EntriesFor(issue, size) ==
  IF issue \notin DOMAIN PRICE_RULES THEN {}
  ELSE {PRICE_RULES[issue][i].bucket[size] :
          i \in {j \in 1..Len(PRICE_RULES[issue]) :
                   size \in DOMAIN PRICE_RULES[issue][j].bucket}}

\* C8: a successful estimate carries budget = round(0.9 min price), standard =
\* round((min price + max price) / 2) and rush = round(1.25 max price) of an
\* entry of the rule table, and budget <= standard <= rush when that entry
\* has min price <= max price.
TierPricesOrdered ==
  (IsEstimate /\ ret.raised = "none" /\ ret.value.ok) =>
    LET t == ret.value.estimate IN
    \E e \in EntriesFor(ret.value.issue, ret.value.size) :
      /\ IsRounded(t.budget.price, 9 * e[1], 10)
      /\ IsRounded(t.standard.price, e[1] + e[2], 2)
      /\ IsRounded(t.rush.price, 5 * e[2], 4)
      /\ e[1] <= e[2] =>
           t.budget.price <= t.standard.price /\ t.standard.price <= t.rush.price

\* the entry (5, 6): 4.5, 5.5 and 7.5 are all rounded from the half
TierPricesWitness ==
  /\ IsEstimate
  /\ ret.raised = "none"
  /\ ret.value.ok
  /\ ret.value.estimate.budget.price = 4
  /\ ret.value.estimate.standard.price = 6
  /\ ret.value.estimate.rush.price = 8

\* the normalised arguments of the estimate in progress, as the claim reads
\* them: trimmed and lowercased, "any" and "medium" when missing or empty
ClaimIssue == Lower(Strip(call.issue.s))
ClaimMaterial ==
  IF call.material.kind = "str" /\ call.material.s # <<>>
  THEN Lower(Strip(call.material.s)) ELSE ANY
ClaimSize ==
  IF call.size_category.kind = "str" /\ call.size_category.s # <<>>
  THEN Lower(Strip(call.size_category.s)) ELSE MEDIUM

\* the bucket the claim's preference order picks among the rules of an issue
ClaimBucket(rules) ==
  IF \E i \in 1..Len(rules) : rules[i].material = ClaimMaterial
  THEN (CHOOSE r \in {rules[i] : i \in 1..Len(rules)} :
          r.material = ClaimMaterial).bucket
  ELSE IF \E i \in 1..Len(rules) : rules[i].material = ANY
  THEN (CHOOSE r \in {rules[i] : i \in 1..Len(rules)} : r.material = ANY).bucket
  ELSE rules[1].bucket

\* C9: estimate_repair never raises; an issue absent from the rule table
\* gives ok = false naming the issue; for a known issue the bucket is the one
\* of the exact material, else of "any", else the first listed, and the call
\* fails only when the size is no key of that bucket, and otherwise succeeds
\* with that cell's tiers and the normalised issue, material and size.
EstimateNeverRaises ==
  IsEstimate =>
    /\ ret.raised = "none"
    /\ IF ClaimIssue \notin DOMAIN PRICE_RULES
       THEN ret.value.ok = FALSE /\ ret.value.msg.arg = ClaimIssue
       ELSE LET bucket == ClaimBucket(PRICE_RULES[ClaimIssue]) IN
            IF ClaimSize \notin DOMAIN bucket
            THEN ret.value.ok = FALSE
            ELSE /\ ret.value.ok
                 /\ ret.value.issue = ClaimIssue
                 /\ ret.value.material = ClaimMaterial
                 /\ ret.value.size = ClaimSize
                 /\ ret.value.estimate = Tiers(bucket[ClaimSize])

(***************************************************************************)
(* One user turn of chat_fn against a scripted model.                      *)
(***************************************************************************)
MaxCalls == 2
MaxClock == 1

ChatCatalog ==
  << [sku |-> <<"b">>, name |-> <<"A">>, category |-> <<"A", "b">>,
      color_options |-> << <<"B", "a">> >>] >>

ChatReference ==
  LoadRows(<< [item_id |-> <<"a">>, name |-> <<"b">>, category |-> <<>>] >>)

ChatRules ==
  (<<"a">> :> << [material |-> ANY, bucket |-> (MEDIUM :> <<80, 150, 2, 4>>)] >>)

Who == ProtoStr(<<"a">>)

\* the function calls the model may request: well-formed ones, ones with a
\* missing or an unexpected argument, ones with a null or a number where
\* text is expected, and a tool that does not exist
ModelCalls ==
  { CallPart("lookup_product", [query |-> ProtoStr(<<"b">>)]),
    CallPart("lookup_product", [query |-> ProtoNum(1)]),
    CallPart("lookup_product", [query |-> ProtoNull]),
    CallPart("lookup_product", <<>>),
    CallPart("estimate_repair", [issue |-> ProtoStr(<<"A">>)]),
    CallPart("estimate_repair", [issue |-> ProtoNull]),
    CallPart("estimate_repair",
             [issue |-> ProtoStr(<<"a">>), size_category |-> ProtoStr(<<"b">>)]),
    CallPart("record_customer_interest",
             [email |-> Who, name |-> Who, message |-> ProtoStr(<<"b">>)]),
    CallPart("record_customer_interest", [email |-> Who, name |-> Who]),
    CallPart("record_feedback", [question |-> ProtoNull]),
    CallPart("record_feedback", [question |-> Who, extra |-> Who]),
    CallPart("record_service_feedback",
             [email |-> Who, name |-> Who, service_type |-> Who,
              satisfaction |-> ProtoNum(1)]),
    CallPart("record_service_feedback",
             [email |-> Who, name |-> Who, service_type |-> Who,
              satisfaction |-> Who, comments |-> ProtoStr(<<"b">>)]),
    CallPart("frobnicate", <<>>) }

\* a response whose only part is the call
CallResponses == {<<Candidate(<<c>>)>> : c \in ModelCalls}

\* responses where the first call is not the first part: after a text part,
\* after a candidate without content, ahead of a second call
MixedResponses ==
  { <<Candidate(<<TextPart(<<"a">>),
                  CallPart("record_feedback", [question |-> Who])>>)>>,
    <<EmptyCandidate,
      Candidate(<<TextPart(<<"b">>)>>),
      Candidate(<<CallPart("frobnicate", <<>>),
                  CallPart("lookup_product", [query |-> ProtoStr(<<"b">>)])>>)>> }

\* responses without a function call: text to trim, blank text, nothing
TextResponses ==
  { <<Candidate(<<TextPart(<<" ", "a">>), TextPart(<<"b", " ">>)>>)>>,
    <<Candidate(<<TextPart(<<" ">>)>>)>>,
    <<>> }

\* the model asks for at most MaxCalls tools and then answers
Scripts ==
  {calls \o <<final>> :
     calls \in SeqsUpTo(CallResponses \cup MixedResponses, MaxCalls),
     final \in TextResponses}

InitChat ==
  /\ CATALOG = ChatCatalog
  /\ IKEA_ITEMS = ChatReference
  /\ PRICE_RULES = ChatRules
  /\ call = [op |-> "none"]
  /\ ret = NoOutcome
  /\ pc = "AwaitingModel"
  /\ response = <<>>
  /\ function_call = [name |-> "", args |-> <<>>]
  /\ tool_result = NoOutcome
  /\ turn \in {[script |-> sc, responses |-> <<>>, dispatched |-> <<>>,
                sent |-> <<>>, returned |-> Absent] : sc \in Scripts}
  /\ leads = <<>>
  /\ feedback = <<>>
  /\ service_feedback = <<>>

\* chat.send_message returns: the model's next response arrives
ModelResponds ==
  /\ pc = "AwaitingModel"
  /\ turn.script # <<>>
  /\ response' = Head(turn.script)
  /\ turn' = [turn EXCEPT !.script = Tail(@),
                          !.responses = Append(@, Head(turn.script))]
  /\ pc' = "ModelResponded"
  /\ UNCHANGED <<dataVars, call, ret, function_call, tool_result, logVars>>

\* the head of the loop: look for a function call, leave the loop and return
\* the trimmed text without one, convert its arguments with one
InspectResponse ==
  /\ pc = "ModelResponded"
  /\ LET fc == first_function_call(response) IN
     IF fc = NoCall
     THEN /\ pc' = "Done"
          /\ turn' = [turn EXCEPT !.returned = Str(Strip(ResponseText(response)))]
          /\ UNCHANGED function_call
     ELSE /\ pc' = "ToolRequested"
          /\ function_call' = [name |-> fc.name, args |-> function_args_to_dict(fc)]
          /\ UNCHANGED turn
  /\ UNCHANGED <<dataVars, call, ret, response, tool_result, logVars>>

\* _call_tool and the function-response message; an exception the dispatcher
\* does not catch leaves chat_fn
DispatchTool(now) ==
  /\ pc = "ToolRequested"
  /\ LET eff == call_tool(CATALOG, IKEA_ITEMS, PRICE_RULES, function_call.name,
                          function_call.args, now)
         done == [name |-> function_call.name, args |-> function_call.args,
                  outcome |-> eff.out]
     IN /\ tool_result' = eff.out
        /\ leads' = IF eff.store = "leads" THEN Append(leads, eff.entry) ELSE leads
        /\ feedback' =
             IF eff.store = "feedback" THEN Append(feedback, eff.entry) ELSE feedback
        /\ service_feedback' =
             IF eff.store = "service_feedback"
             THEN Append(service_feedback, eff.entry) ELSE service_feedback
        /\ IF eff.out.raised = "none"
           THEN /\ pc' = "AwaitingModel"
                /\ turn' = [turn EXCEPT
                     !.dispatched = Append(@, done),
                     !.sent = Append(@, [name |-> function_call.name,
                                         response |-> eff.out.value])]
           ELSE /\ pc' = "Faulted"
                /\ turn' = [turn EXCEPT !.dispatched = Append(@, done)]
  /\ UNCHANGED <<dataVars, call, ret, response, function_call>>

NextChat ==
  \/ ModelResponds
  \/ InspectResponse
  \/ \E now \in 0..MaxClock : DispatchTool(now)

SpecChat == InitChat /\ [][NextChat]_vars

(***************************************************************************)
(* Properties of the dispatcher, the log and the loop.                     *)
(***************************************************************************)
\* the parts of all candidates of a response, in candidate and part order
RECURSIVE AllParts(_)
AllParts(candidates) ==
  IF candidates = <<>> THEN <<>>
  ELSE Head(candidates).parts \o AllParts(Tail(candidates))

HasCall(candidates) ==
  \E i \in 1..Len(AllParts(candidates)) : AllParts(candidates)[i].kind = "function_call"

\* the first function-call part of a response that has one
RequestedCall(candidates) ==
  LET parts == AllParts(candidates)
      at == CHOOSE i \in 1..Len(parts) :
              /\ parts[i].kind = "function_call"
              /\ \A j \in 1..(i - 1) : parts[j].kind # "function_call"
  IN parts[at]

\* the responses of the whole turn: those received and those still to come
WholeScript == turn.responses \o turn.script

TurnOver == pc \in {"Done", "Faulted"}

\* C1: when the model answers with k function-call responses and then one
\* without, chat_fn dispatches exactly those k calls in order, sends one
\* function response per dispatch with the call's name and the dispatcher's
\* result, and returns the trimmed text of the last response.
ChatTurnContract ==
  TurnOver =>
    LET k == Len(WholeScript) - 1 IN
    /\ pc = "Done"
    /\ Len(turn.dispatched) = k
    /\ Len(turn.sent) = k
    /\ \A i \in 1..k :
         LET fc == RequestedCall(WholeScript[i]) IN
         /\ turn.dispatched[i].name = fc.name
         /\ turn.dispatched[i].args = function_args_to_dict(fc)
         /\ turn.sent[i].name = fc.name
         /\ turn.sent[i].response = turn.dispatched[i].outcome.value
    /\ turn.returned = Str(Strip(ResponseText(WholeScript[k + 1])))

\* a required parameter is missing or an unexpected one is present
BadShape(name, args) ==
  \/ \E key \in Required(name) : key \notin DOMAIN args
  \/ \E key \in DOMAIN args : key \notin (Required(name) \cup Optional(name))

\* query or issue is present and is null or not a string
NotText(args) ==
  \E key \in {"query", "issue"} \cap DOMAIN args : args[key].kind # "str"

\* C2: every dispatch returns a ToolResult: ok = false naming the tool for an
\* unknown name, and ok = false with a message for a known tool whose
\* arguments have a wrong shape or a null or non-string query or issue.
DispatcherNeverFaults ==
  \A i \in 1..Len(turn.dispatched) :
    LET d == turn.dispatched[i] IN
    /\ d.outcome.raised = "none"
    /\ d.name \notin ToolNames =>
         d.outcome.value.ok = FALSE /\ d.outcome.value.msg.name = d.name
    /\ (d.name \in ToolNames /\ (BadShape(d.name, d.args) \/ NotText(d.args))) =>
         d.outcome.value.ok = FALSE /\ "msg" \in DOMAIN d.outcome.value

\* log is old with exactly one line appended, holding fields and a timestamp
AppendedLine(old, log, fields) ==
  /\ Len(log) = Len(old) + 1
  /\ SubSeq(log, 1, Len(old)) = old
  /\ log[Len(log)].ts \in Nat
  /\ \A key \in DOMAIN fields : log[Len(log)][key] = fields[key]
  /\ DOMAIN log[Len(log)] = DOMAIN fields \cup {"ts"}

\* the comments a service-feedback line holds: those passed, "" without
LoggedComments(args) ==
  IF "comments" \in DOMAIN args /\ Truthy(args["comments"])
  THEN args["comments"] ELSE Str(<<>>)

\* one step of the log stores, read off the dispatch that is made
LogStep ==
  LET name == function_call.name
      args == function_call.args
      wrote == /\ pc = "ToolRequested"
               /\ pc' # "ToolRequested"
               /\ tool_result'.raised = "none"
               /\ tool_result'.value.ok
  IN IF wrote /\ name = "record_customer_interest"
     THEN /\ AppendedLine(leads, leads', args)
          /\ UNCHANGED <<feedback, service_feedback>>
     ELSE IF wrote /\ name = "record_feedback"
     THEN /\ AppendedLine(feedback, feedback', args)
          /\ UNCHANGED <<leads, service_feedback>>
     ELSE IF wrote /\ name = "record_service_feedback"
     THEN /\ AppendedLine(service_feedback, service_feedback',
                          [key \in DOMAIN args \cup {"comments"} |->
                             IF key = "comments" THEN LoggedComments(args)
                             ELSE args[key]])
          /\ UNCHANGED <<leads, feedback>>
     ELSE UNCHANGED <<leads, feedback, service_feedback>>

\* C3: the three logs are append-only: a successful record_customer_interest,
\* record_feedback or record_service_feedback appends one line with the
\* call's fields and a timestamp to its own log and leaves the other two
\* alone; every other dispatch, and every dispatch that fails, leaves all
\* three alone; no line already written changes.
LogsAppendOnly == [][LogStep]_vars

\* a feedback line was written, and a second record_feedback that the
\* dispatcher rejected left the log as it was
LogsWitness ==
  /\ Len(turn.dispatched) = 2
  /\ turn.dispatched[1].name = "record_feedback"
  /\ turn.dispatched[2].name = "record_feedback"
  /\ turn.dispatched[2].outcome.value.ok = FALSE
  /\ Len(feedback) = 1
  /\ leads = <<>>
  /\ service_feedback = <<>>

\* one step of the loop, as the state machine of the orchestrator allows it
LoopStep ==
  /\ pc = "AwaitingModel" => pc' = "ModelResponded"
  /\ pc = "ModelResponded" =>
       /\ pc' \in {"Done", "ToolRequested"}
       /\ pc' = "Done" <=> ~HasCall(response)
  /\ pc = "ToolRequested" => pc' = "AwaitingModel"
  /\ pc = "Done" => pc' = "Done"

\* C10: the loop moves only AwaitingModel -> ModelResponded -> (Done or
\* ToolRequested) and ToolRequested -> AwaitingModel, whatever the number of
\* calls so far, and reaches Done exactly on a response without a function
\* call.
LoopTransitions == [][LoopStep]_vars

====
